---- MODULE Spec2Model ----
(***************************************************************************)
(* Model of the message-analyzer API server (server/index.js): the         *)
(* threads and messages tables, POST /api/threads (recordMessage) with its *)
(* transaction, updateThreadCalculations, the automatic webhook dispatch   *)
(* (sendThreadToWebhook) and PUT /api/threads/:id (applyScores).           *)
(*                                                                         *)
(* Specifications.                                                         *)
(*  - Spec: messages and valid score updates on one thread, call by call.  *)
(*  - SpecScores: score updates with every kind of request body.           *)
(*  - SpecThread: a long conversation on one thread, with time passing and *)
(*    the dispatch callbacks.                                              *)
(*  - SpecTxn: a request statement by statement, any of which may throw.   *)
(*                                                                         *)
(* Conventions.                                                            *)
(*  - A nullable SQL column or JS value is a set with at most one element: *)
(*    NULL is {} and a present value v is {v}.                             *)
(*  - Time is counted in hours.  Every transaction takes a fresh, strictly *)
(*    larger CURRENT_TIMESTAMP at BEGIN, so message dates are distinct.    *)
(*  - An INTERVAL average is kept exactly, as a reduced fraction <<n, d>>. *)
(***************************************************************************)
EXTENDS Integers, Sequences, FiniteSets, TLC

VARIABLES
    threads,     \* table threads: thread_id -> row (DOMAIN = existing rows)
    messages,    \* table messages: the committed rows, in commit order
    now,         \* the database clock
    req,         \* in-flight POST /api/threads requests, per connection slot
    tasks,       \* setImmediate callbacks running sendThreadToWebhook
    dispatched,  \* per thread: automatic dispatches scheduled so far
    outbox,      \* the most recent outbound webhook request
    last,        \* the most recent completed API call and its response
    bulk         \* the in-flight POST /api/analyze request

vars == <<threads, messages, now, req, tasks, dispatched, outbox, last, bulk>>

----------------------------------------------------------------------------
\* Bounds of the model.

MaxMsgs == 7
MaxTime == 7
MaxShort == 3
MaxScored == 2
MaxFirst == 1
MaxTxn == 6
MaxList == 2
MaxBulk == 3
MaxHook == 6
MaxTypes == 3
MaxRace == 3
MaxRead == 3
MaxOwner == 3
MaxClear == 3

\* Program constants.

ThreeHours == 3
MinOutgoing == 3
MinIncoming == 3
ScoreMin == 0
ScoreMax == 100

NULL == {}
Val(x) == {x}
The(s) == CHOOSE x \in s : TRUE

ThreadIds == {"t1", "t2"}
Reqs == {"r1", "r2"}
ScoreFields == {"acknowledgment_score", "affection_score", "personalization_score",
                "sales_ability", "girl_roleplay_skill"}

Max(S) == CHOOSE x \in S : \A y \in S : y <= x

RECURSIVE GCD(_, _)
GCD(a, b) == IF b = 0 THEN a ELSE GCD(b, a % b)

\* sum / n as an exact fraction in lowest terms
Fraction(sum, n) == <<sum \div GCD(sum, n), n \div GCD(sum, n)>>

----------------------------------------------------------------------------
\* Queries over the messages of one thread (a set of rows with distinct dates).

\* SELECT ... FROM messages WHERE thread_id = $1
ThreadMessages(ms, tid) == {ms[i] : i \in {j \in DOMAIN ms : ms[j].thread_id = tid}}

\* ORDER BY date DESC LIMIT 1
LastMessage(S) == CHOOSE m \in S : \A x \in S : x.date <= m.date

\* ORDER BY date ASC
RECURSIVE OrderByDateAsc(_)
OrderByDateAsc(S) ==
    IF S = {} THEN <<>>
    ELSE LET m == LastMessage(S) IN Append(OrderByDateAsc(S \ {m}), m)

\* SELECT MAX(date) FROM messages WHERE thread_id = $1
MaxDate(S) == IF S = {} THEN NULL ELSE Val(Max({m.date : m \in S}))

\* the rows of the response_times CTE: an incoming m1 joined with an outgoing
\* m2 later than it, with no incoming strictly between the two
ResponseTimes(S) ==
    {p \in S \X S :
        /\ p[1].type = "incoming"
        /\ p[2].type = "outgoing"
        /\ p[2].date > p[1].date
        /\ ~ \E m3 \in S : /\ m3.type = "incoming"
                           /\ m3.date > p[1].date
                           /\ m3.date < p[2].date}

RECURSIVE SumResponseTime(_)
SumResponseTime(P) ==
    IF P = {} THEN 0
    ELSE LET p == CHOOSE x \in P : TRUE
         IN (p[2].date - p[1].date) + SumResponseTime(P \ {p})

\* SELECT AVG(response_time) FROM response_times; `|| null`
avgResponseTimeQuery(S) ==
    LET P == ResponseTimes(S)
    IN IF P = {} THEN NULL
       ELSE Val(Fraction(SumResponseTime(P), Cardinality(P)))

\* RespondedCase as it was before the fix: 'Yes' unless an old outgoing
RespondedCaseBackwards(type, date, clock) ==
    CASE type = "outgoing" /\ (clock - date) > ThreeHours -> "No"
      [] OTHER -> "Yes"

\* the CASE of respondedQuery and of GET /api/threads, on the last message
RespondedCase(type, date, clock) ==
    CASE type = "incoming" -> "Yes"
      [] type = "outgoing" /\ (clock - date) > ThreeHours -> "No"
      [] OTHER -> "No"

\* respondedQuery, with `rows[0]?.responded || 'No'`; clock is NOW()
respondedQuery(S, clock) ==
    IF S = {} THEN "No"
    ELSE LET lm == LastMessage(S) IN RespondedCase(lm.type, lm.date, clock)

\* messageCountsQuery: <<operator_count, client_count>>
messageCountsQuery(S) ==
    <<Cardinality({m \in S : m.type = "outgoing"}),
      Cardinality({m \in S : m.type = "incoming"})>>

\* the criterion with `||` in place of `&&`
MeetsCriteriaEither(counts) == counts[1] >= MinOutgoing \/ counts[2] >= MinIncoming

\* the criterion checked after COMMIT
MeetsCriteria(counts) == counts[1] >= MinOutgoing /\ counts[2] >= MinIncoming

----------------------------------------------------------------------------
\* Statements on the threads table.

\* `converted || null` of the request body ("" and absent are falsy)
ConvertedParam(c) == IF c = NULL \/ c = Val("") THEN NULL ELSE c

\* threadUpsertQuery without the three `= NULL` assignments of DO UPDATE SET
threadUpsertKeepingScores(old, in) ==
    IF old = {} THEN
        [operator |-> in.operator, model |-> in.model,
         converted |-> ConvertedParam(in.converted),
         last_message |-> NULL, avg_response_time |-> NULL, responded |-> NULL,
         acknowledgment_score |-> NULL, affection_score |-> NULL,
         personalization_score |-> NULL,
         sales_ability |-> NULL, girl_roleplay_skill |-> NULL]
    ELSE
        [The(old) EXCEPT
            !.converted = IF ConvertedParam(in.converted) = Val("Yes")
                          THEN ConvertedParam(in.converted) ELSE @]

\* threadUpsertQuery with `converted = EXCLUDED.converted`, without the CASE
threadUpsertOverwritingConverted(old, in) ==
    IF old = {} THEN
        [operator |-> in.operator, model |-> in.model,
         converted |-> ConvertedParam(in.converted),
         last_message |-> NULL, avg_response_time |-> NULL, responded |-> NULL,
         acknowledgment_score |-> NULL, affection_score |-> NULL,
         personalization_score |-> NULL,
         sales_ability |-> NULL, girl_roleplay_skill |-> NULL]
    ELSE
        [The(old) EXCEPT
            !.converted = ConvertedParam(in.converted),
            !.acknowledgment_score = NULL,
            !.affection_score = NULL,
            !.personalization_score = NULL]

\* threadUpsertQuery with operator and model among the columns of DO UPDATE SET
threadUpsertOverwritingOwner(old, in) ==
    IF old = {} THEN
        [operator |-> in.operator, model |-> in.model,
         converted |-> ConvertedParam(in.converted),
         last_message |-> NULL, avg_response_time |-> NULL, responded |-> NULL,
         acknowledgment_score |-> NULL, affection_score |-> NULL,
         personalization_score |-> NULL,
         sales_ability |-> NULL, girl_roleplay_skill |-> NULL]
    ELSE
        [The(old) EXCEPT
            !.operator = in.operator,
            !.model = in.model,
            !.converted = IF ConvertedParam(in.converted) = Val("Yes")
                          THEN ConvertedParam(in.converted) ELSE @,
            !.acknowledgment_score = NULL,
            !.affection_score = NULL,
            !.personalization_score = NULL]

\* INSERT INTO threads ... ON CONFLICT (thread_id) DO UPDATE SET ...
\* old is the set holding the existing row, if any
threadUpsertQuery(old, in) ==
    IF old = {} THEN
        [operator |-> in.operator, model |-> in.model,
         converted |-> ConvertedParam(in.converted),
         last_message |-> NULL, avg_response_time |-> NULL, responded |-> NULL,
         acknowledgment_score |-> NULL, affection_score |-> NULL,
         personalization_score |-> NULL,
         sales_ability |-> NULL, girl_roleplay_skill |-> NULL]
    ELSE
        [The(old) EXCEPT
            !.converted = IF ConvertedParam(in.converted) = Val("Yes")
                          THEN ConvertedParam(in.converted) ELSE @,
            !.acknowledgment_score = NULL,
            !.affection_score = NULL,
            !.personalization_score = NULL]

\* INSERT INTO messages (thread_id, operator, model, type, message); date
\* defaults to CURRENT_TIMESTAMP, the start time of the transaction
messageInsertQuery(in, ts) ==
    [thread_id |-> in.thread_id, operator |-> in.operator, model |-> in.model,
     type |-> in.type, message |-> in.message, date |-> ts]

\* updateThreadCalculations: the row after its two UPDATEs, S being the
\* messages of the thread visible to the transaction and clock its NOW()
updateThreadCalculations(row, S, clock) ==
    [row EXCEPT
        !.last_message = MaxDate(S),
        !.avg_response_time = avgResponseTimeQuery(S),
        !.responded = Val(respondedQuery(S, clock))]

----------------------------------------------------------------------------
\* PUT /api/threads/:id

\* JSON values of a request body
JUndef == [t |-> "undefined", n |-> 0, half |-> FALSE]
JNull == [t |-> "null", n |-> 0, half |-> FALSE]
JStr == [t |-> "string", n |-> 0, half |-> FALSE]
JNum(k) == [t |-> "number", n |-> k, half |-> FALSE]
\* the non-integer number k + 0.5
JHalf(k) == [t |-> "number", n |-> k, half |-> TRUE]

\* a request body that provides no score
NoScores == [f \in ScoreFields |-> JUndef]

Provided(v) == v.t # "null" /\ v.t # "undefined"

\* the validation without its `value > 100`
OutOfRangeNoUpper(v) ==
    \/ v.t # "number"
    \/ v.n < ScoreMin

\* typeof value !== 'number' || value < 0 || value > 100
OutOfRange(v) ==
    \/ v.t # "number"
    \/ v.n < ScoreMin
    \/ v.n > ScoreMax
    \/ (v.n = ScoreMax /\ v.half)

\* the validation loop over Object.entries(scores)
ScoresValid(body) == \A f \in ScoreFields : Provided(body[f]) => ~ OutOfRange(body[f])

\* the query parameter node-pg sends for a body value (undefined goes as NULL)
ScoreParam(v) == IF Provided(v) THEN Val(v.n) ELSE NULL

\* a parameter that PostgreSQL cannot read as INTEGER fails the statement
BindsAsInteger(v) == Provided(v) => (v.t = "number" /\ ~ v.half)

\* updateQuery with `f = $i` in place of `f = COALESCE($i, f)`
updateQueryNoCoalesce(row, body) ==
    [row EXCEPT
        !.acknowledgment_score = ScoreParam(body.acknowledgment_score),
        !.affection_score = ScoreParam(body.affection_score),
        !.personalization_score = ScoreParam(body.personalization_score),
        !.sales_ability = ScoreParam(body.sales_ability),
        !.girl_roleplay_skill = ScoreParam(body.girl_roleplay_skill)]

\* UPDATE threads SET f = COALESCE($i, f), ... WHERE thread_id = $6
updateQuery(row, body) ==
    [row EXCEPT
        !.acknowledgment_score =
            IF ScoreParam(body.acknowledgment_score) # NULL
            THEN ScoreParam(body.acknowledgment_score) ELSE @,
        !.affection_score =
            IF ScoreParam(body.affection_score) # NULL
            THEN ScoreParam(body.affection_score) ELSE @,
        !.personalization_score =
            IF ScoreParam(body.personalization_score) # NULL
            THEN ScoreParam(body.personalization_score) ELSE @,
        !.sales_ability =
            IF ScoreParam(body.sales_ability) # NULL
            THEN ScoreParam(body.sales_ability) ELSE @,
        !.girl_roleplay_skill =
            IF ScoreParam(body.girl_roleplay_skill) # NULL
            THEN ScoreParam(body.girl_roleplay_skill) ELSE @]

----------------------------------------------------------------------------
\* GET /api/threads

\* req.query: each parameter is absent (NULL) or a string; operator and
\* model are comma-separated lists, kept as the sequence of their items
\* (the empty string is <<>>); start and end are timestamps
NoFilter == [operator |-> NULL, model |-> NULL, start |-> NULL, end |-> NULL,
             lastMessageSince |-> NULL, analyzedOnly |-> NULL,
             lastMessageType |-> NULL]

\* `if (x !== undefined)` in place of `if (x)`
TruthyListNotUndefined(q) == q # NULL

\* `if (x)` on a query parameter
TruthyList(q) == q # NULL /\ The(q) # <<>>
TruthyStr(q) == q # NULL /\ The(q) # ""

\* x.split(',')
Split(q) == {The(q)[i] : i \in DOMAIN The(q)}

\* intervalMap, in minutes
intervalMap ==
    ("30m" :> 30) @@ ("60m" :> 60) @@ ("2h" :> 120) @@ ("3h" :> 180) @@
    ("4h" :> 240) @@ ("5h" :> 300) @@ ("6h" :> 360) @@ ("7h" :> 420) @@
    ("8h" :> 480) @@ ("9h" :> 540) @@ ("10h" :> 600) @@ ("11h" :> 660) @@
    ("12h" :> 720) @@ ("13h" :> 780) @@ ("14h" :> 840) @@ ("15h" :> 900) @@
    ("16h" :> 960) @@ ("17h" :> 1020) @@ ("18h" :> 1080) @@ ("19h" :> 1140) @@
    ("20h" :> 1200) @@ ("21h" :> 1260) @@ ("22h" :> 1320) @@ ("23h" :> 1380) @@
    ("24h" :> 1440) @@ ("2d" :> 2880) @@ ("3d" :> 4320) @@ ("7d" :> 10080) @@
    ("14d" :> 20160) @@ ("30d" :> 43200)

\* DISTINCT ON (thread_id) ... ORDER BY thread_id, date DESC: the row of lm
\* joined to thread tid, if any
lm(ms, tid) ==
    LET S == ThreadMessages(ms, tid)
    IN IF S = {} THEN {} ELSE Val(LastMessage(S))

\* the conditions with the age bucket left out
listConditionsNoBucket(row, last_m, clock, f) ==
    /\ TruthyList(f.operator) => row.operator \in Split(f.operator)
    /\ TruthyList(f.model) => row.model \in Split(f.model)
    /\ f.start # NULL => (row.last_message # NULL /\ The(row.last_message) >= The(f.start))
    /\ f.end # NULL => (row.last_message # NULL /\ The(row.last_message) <= The(f.end))
    /\ f.analyzedOnly = Val("true") =>
          /\ row.acknowledgment_score # NULL
          /\ row.affection_score # NULL
          /\ row.personalization_score # NULL
    /\ (f.lastMessageType = Val("incoming") \/ f.lastMessageType = Val("outgoing")) =>
          (last_m # {} /\ The(last_m).type = The(f.lastMessageType))

\* conditions.join(' AND ') on the joined row of a thread; clock is NOW()
listConditions(row, last_m, clock, f) ==
    /\ TruthyList(f.operator) => row.operator \in Split(f.operator)
    /\ TruthyList(f.model) => row.model \in Split(f.model)
    /\ f.start # NULL => (row.last_message # NULL /\ The(row.last_message) >= The(f.start))
    /\ f.end # NULL => (row.last_message # NULL /\ The(row.last_message) <= The(f.end))
    /\ (TruthyStr(f.lastMessageSince) /\ f.lastMessageSince # Val("all")
          /\ The(f.lastMessageSince) \in DOMAIN intervalMap) =>
          /\ row.last_message # NULL
          /\ The(row.last_message) * 60 >= clock * 60 - intervalMap[The(f.lastMessageSince)]
    /\ f.analyzedOnly = Val("true") =>
          /\ row.acknowledgment_score # NULL
          /\ row.affection_score # NULL
          /\ row.personalization_score # NULL
    /\ (f.lastMessageType = Val("incoming") \/ f.lastMessageType = Val("outgoing")) =>
          (last_m # {} /\ The(last_m).type = The(f.lastMessageType))

\* COALESCE(x, 0)
Coalesce0(x) == IF x = NULL THEN Val(0) ELSE x

\* the selected columns with the CASE of responded written backwards
listRowBackwards(tid, row, S, clock) ==
    [thread_id |-> tid, operator |-> row.operator, model |-> row.model,
     converted |-> row.converted, last_message |-> row.last_message,
     avg_response_time |-> row.avg_response_time,
     responded |-> IF S = {} THEN "No"
                   ELSE RespondedCaseBackwards(LastMessage(S).type,
                                               LastMessage(S).date, clock),
     acknowledgment_score |-> row.acknowledgment_score,
     affection_score |-> row.affection_score,
     personalization_score |-> row.personalization_score,
     sales_ability |-> Coalesce0(row.sales_ability),
     girl_roleplay_skill |-> Coalesce0(row.girl_roleplay_skill),
     message_count |-> Cardinality(S)]

\* the selected columns of a thread (formattedThreads)
listRow(tid, row, S, clock) ==
    [thread_id |-> tid, operator |-> row.operator, model |-> row.model,
     converted |-> row.converted, last_message |-> row.last_message,
     avg_response_time |-> row.avg_response_time,
     responded |-> respondedQuery(S, clock),
     acknowledgment_score |-> row.acknowledgment_score,
     affection_score |-> row.affection_score,
     personalization_score |-> row.personalization_score,
     sales_ability |-> Coalesce0(row.sales_ability),
     girl_roleplay_skill |-> Coalesce0(row.girl_roleplay_skill),
     message_count |-> Cardinality(S)]

\* ORDER BY t.last_message DESC (NULLs first) over the thread ids T
RECURSIVE OrderByLastMessageDesc(_, _)
OrderByLastMessageDesc(tbl, T) ==
    IF T = {} THEN <<>>
    ELSE LET first == CHOOSE t \in T : \A u \in T :
                          \/ tbl[t].last_message = NULL
                          \/ /\ tbl[u].last_message # NULL
                             /\ The(tbl[u].last_message) <= The(tbl[t].last_message)
         IN <<first>> \o OrderByLastMessageDesc(tbl, T \ {first})

\* GET /api/stats: COUNT(CASE WHEN responded = 'Yes' THEN 1 END), the
\* numerator of responseRate
respondedCount(tbl) == Cardinality({t \in DOMAIN tbl : tbl[t].responded = Val("Yes")})

\* the query of GET /api/threads on tables tbl and ms at time clock
listThreadsQuery(tbl, ms, clock, f) ==
    LET T == {t \in DOMAIN tbl : listConditions(tbl[t], lm(ms, t), clock, f)}
        order == OrderByLastMessageDesc(tbl, T)
    IN [i \in DOMAIN order |->
          listRow(order[i], tbl[order[i]], ThreadMessages(ms, order[i]), clock)]

----------------------------------------------------------------------------
\* State of the requests and of the dispatch callbacks.

NoInput == [thread_id |-> "", operator |-> "", model |-> "", type |-> "",
            message |-> "", converted |-> NULL]

IdleReq == [pc |-> "idle", in |-> NoInput, ts |-> 0, row |-> {}, msg |-> {},
            counts |-> <<0, 0>>, cleared |-> {}]

\* the record of a completed call: the operation, its thread, the status of
\* the response, a note on the request (the message type, or the kind of
\* score body), the converted parameter it carried, the score fields whose
\* stored value it replaced by NULL, the scores of its request body, the
\* filter of its query and the rows of its response
Call(op, tid, status, note, arg, cleared) ==
    [op |-> op, thread_id |-> tid, status |-> status, note |-> note, arg |-> arg,
     cleared |-> cleared, body |-> NoScores, filter |-> NoFilter, rows |-> <<>>]

NoCall == Call("none", "", 0, "", NULL, {})

\* POST /api/analyze: the request body, the rows of the threads query, the
\* thread payloads built so far
NoAnalysis == [filters |-> NULL, numberOfChats |-> 0, threadDepth |-> 0]

IdleBulk == [pc |-> "idle", in |-> NoAnalysis, rows |-> <<>>, payload |-> <<>>]

\* the score fields that hold a value in old (a set holding a row, if any)
\* and none in new
Cleared(old, new) ==
    IF old = {} THEN {}
    ELSE {f \in ScoreFields : The(old)[f] # NULL /\ new[f] = NULL}

\* posts counts the POSTs made by automatic dispatches so far
NoPost == [kind |-> "none", payload |-> <<>>, result |-> "none", posts |-> 0]

\* `!operator || !thread_id || !model || !type || !message`
MissingFields(in) ==
    \/ in.operator = ""
    \/ in.thread_id = ""
    \/ in.model = ""
    \/ in.type = ""
    \/ in.message = ""

\* the committed row of a thread, as a set
Committed(tid) == IF tid \in DOMAIN threads THEN Val(threads[tid]) ELSE {}

\* the threads table with the row of tid written
PutRow(tbl, tid, row) ==
    [x \in DOMAIN tbl \cup {tid} |-> IF x = tid THEN row ELSE tbl[x]]

\* the row lock taken by the upsert is held until COMMIT or ROLLBACK
HoldsLock(r) == req[r].pc \in {"upserted", "inserted", "calculated", "counted"}
\* an upsert that does not wait for the row
LockedNever(tid) == FALSE

Locked(tid) == \E r \in Reqs : HoldsLock(r) /\ req[r].in.thread_id = tid

\* what the statements of the transaction of r read (READ COMMITTED plus
\* the transaction's own writes)
VisibleRow(r) == IF req[r].row # {} THEN req[r].row ELSE Committed(req[r].in.thread_id)
VisibleMessages(r) == ThreadMessages(messages, req[r].in.thread_id) \cup req[r].msg

\* the handler with messageInsertQuery sent by pool.query, outside the
\* transaction of client
StatementConnInsertOnPool(stmt) == IF stmt = "insert" THEN "pool" ELSE "client"

\* the connection a statement of the handler is sent on
StatementConn(stmt) == "client"

RemoveAt(s, k) == [i \in 1..(Len(s) - 1) |-> IF i < k THEN s[i] ELSE s[i + 1]]

Init ==
    /\ threads = <<>>
    /\ messages = <<>>
    /\ now = 1
    /\ req = [r \in Reqs |-> IdleReq]
    /\ tasks = <<>>
    /\ dispatched = [t \in ThreadIds |-> 0]
    /\ outbox = NoPost
    /\ last = NoCall
    /\ bulk = IdleBulk

----------------------------------------------------------------------------
\* POST /api/threads

\* missing required fields: 400 before anything is touched
Reject(in) ==
    /\ MissingFields(in)
    /\ last' = Call("recordMessage", in.thread_id, 400, "missing", NULL, {})
    /\ UNCHANGED <<threads, messages, now, req, tasks, dispatched, outbox, bulk>>

\* pool.connect() and BEGIN; CURRENT_TIMESTAMP of the transaction is fixed
Begin(r, in) ==
    /\ ~ MissingFields(in)
    /\ req[r].pc = "idle"
    /\ req' = [req EXCEPT ![r] = [IdleReq EXCEPT !.pc = "begun", !.in = in, !.ts = now]]
    /\ now' = now + 1
    /\ UNCHANGED <<threads, messages, tasks, dispatched, outbox, last, bulk>>

\* client.query(threadUpsertQuery); waits while another transaction holds
\* the row (or the key being inserted)
Upsert(r) ==
    /\ req[r].pc = "begun"
    /\ ~ Locked(req[r].in.thread_id)
    /\ req' = [req EXCEPT ![r].pc = "upserted",
                          ![r].row = Val(threadUpsertQuery(VisibleRow(r), req[r].in))]
    /\ UNCHANGED <<threads, messages, now, tasks, dispatched, outbox, last, bulk>>

\* client.query(messageInsertQuery)
Insert(r) ==
    /\ req[r].pc = "upserted"
    /\ LET m == messageInsertQuery(req[r].in, req[r].ts)
       IN IF StatementConn("insert") = "client"
          THEN /\ req' = [req EXCEPT ![r].pc = "inserted", ![r].msg = Val(m)]
               /\ UNCHANGED messages
          ELSE /\ req' = [req EXCEPT ![r].pc = "inserted"]
               /\ messages' = Append(messages, m)
    /\ UNCHANGED <<threads, now, tasks, dispatched, outbox, last, bulk>>

\* await updateThreadCalculations(client, thread_id)
Calculate(r) ==
    /\ req[r].pc = "inserted"
    /\ req' = [req EXCEPT ![r].pc = "calculated",
                          ![r].row = Val(updateThreadCalculations(
                                            The(VisibleRow(r)), VisibleMessages(r),
                                            req[r].ts))]
    /\ UNCHANGED <<threads, messages, now, tasks, dispatched, outbox, last, bulk>>

\* client.query(messageCountsQuery)
Count(r) ==
    /\ req[r].pc = "calculated"
    /\ req' = [req EXCEPT ![r].pc = "counted",
                          ![r].counts = messageCountsQuery(VisibleMessages(r))]
    /\ UNCHANGED <<threads, messages, now, tasks, dispatched, outbox, last, bulk>>

\* COMMIT: the writes of the transaction become visible together
Commit(r) ==
    /\ req[r].pc = "counted"
    /\ threads' = IF req[r].row # {}
                  THEN PutRow(threads, req[r].in.thread_id, The(req[r].row))
                  ELSE threads
    /\ messages' = IF req[r].msg # {} THEN Append(messages, The(req[r].msg)) ELSE messages
    /\ req' = [req EXCEPT ![r].pc = "committed", ![r].row = {}, ![r].msg = {},
                          ![r].cleared = IF req[r].row # {}
                                         THEN Cleared(Committed(req[r].in.thread_id),
                                                      The(req[r].row))
                                         ELSE {}]
    /\ UNCHANGED <<now, tasks, dispatched, outbox, last, bulk>>

\* after COMMIT: the criteria check, setImmediate, res.status(201)
Respond(r) ==
    /\ req[r].pc = "committed"
    /\ IF MeetsCriteria(req[r].counts)
       THEN /\ tasks' = Append(tasks, [thread_id |-> req[r].in.thread_id,
                                       pc |-> "scheduled", thread |-> {},
                                       payload |-> <<>>])
            /\ dispatched' = [dispatched EXCEPT ![req[r].in.thread_id] = @ + 1]
       ELSE UNCHANGED <<tasks, dispatched>>
    /\ last' = Call("recordMessage", req[r].in.thread_id, 201, req[r].in.type,
                     ConvertedParam(req[r].in.converted), req[r].cleared)
    /\ req' = [req EXCEPT ![r] = IdleReq]
    /\ UNCHANGED <<threads, messages, now, outbox, bulk>>

\* ROLLBACK: the pending writes of the transaction are discarded
Rollback(r) == IdleReq

\* a handler that checks the criteria and calls setImmediate before COMMIT
FailAfterScheduling(r) ==
    /\ req[r].pc \in {"begun", "upserted", "inserted", "calculated", "counted"}
    /\ IF req[r].pc = "counted" /\ MeetsCriteria(req[r].counts)
       THEN /\ tasks' = Append(tasks, [thread_id |-> req[r].in.thread_id,
                                       pc |-> "scheduled", thread |-> {},
                                       payload |-> <<>>])
            /\ dispatched' = [dispatched EXCEPT ![req[r].in.thread_id] = @ + 1]
       ELSE UNCHANGED <<tasks, dispatched>>
    /\ req' = [req EXCEPT ![r] = Rollback(r)]
    /\ last' = Call("recordMessage", req[r].in.thread_id, 500, req[r].pc, NULL, {})
    /\ UNCHANGED <<threads, messages, now, outbox, bulk>>

\* the statement awaited at pc throws: catch, ROLLBACK, rethrow, 500
Fail(r) ==
    /\ req[r].pc \in {"begun", "upserted", "inserted", "calculated", "counted"}
    /\ req' = [req EXCEPT ![r] = Rollback(r)]
    /\ last' = Call("recordMessage", req[r].in.thread_id, 500, req[r].pc, NULL, {})
    /\ UNCHANGED <<threads, messages, now, tasks, dispatched, outbox, bulk>>

\* a transaction whose message insert is left out
RecordedWithoutInsert(tbl, ms, in, ts) ==
    LET tid == in.thread_id
        old == IF tid \in DOMAIN tbl THEN Val(tbl[tid]) ELSE {}
        row1 == threadUpsertQuery(old, in)
        S == ThreadMessages(ms, tid)
        row2 == updateThreadCalculations(row1, S, ts)
    IN [threads |-> PutRow(tbl, tid, row2), messages |-> ms,
        counts |-> messageCountsQuery(S)]

\* The tables and counts produced by one transaction of the handler run on
\* tables tbl and ms at time ts: the upsert, the insert,
\* updateThreadCalculations, the counts, COMMIT.
Recorded(tbl, ms, in, ts) ==
    LET tid == in.thread_id
        old == IF tid \in DOMAIN tbl THEN Val(tbl[tid]) ELSE {}
        row1 == threadUpsertQuery(old, in)
        m == messageInsertQuery(in, ts)
        S == ThreadMessages(ms, tid) \cup {m}
        row2 == updateThreadCalculations(row1, S, ts)
    IN [threads |-> PutRow(tbl, tid, row2), messages |-> Append(ms, m),
        counts |-> messageCountsQuery(S)]

\* The whole handler with no other request interleaved: the transaction, the
\* criteria check with setImmediate, and the 201 response.
RecordMessage(in) ==
    /\ ~ MissingFields(in)
    /\ \A r \in Reqs : req[r].pc = "idle"
    /\ LET db == Recorded(threads, messages, in, now)
       IN /\ threads' = db.threads
          /\ messages' = db.messages
          /\ IF MeetsCriteria(db.counts)
             THEN /\ tasks' = Append(tasks, [thread_id |-> in.thread_id,
                                             pc |-> "scheduled", thread |-> {},
                                             payload |-> <<>>])
                  /\ dispatched' = [dispatched EXCEPT ![in.thread_id] = @ + 1]
             ELSE UNCHANGED <<tasks, dispatched>>
          /\ last' = Call("recordMessage", in.thread_id, 201, in.type,
                           ConvertedParam(in.converted),
                           Cleared(Committed(in.thread_id), db.threads[in.thread_id]))
    /\ now' = now + 1
    /\ UNCHANGED <<req, outbox, bulk>>

\* time passes
Tick ==
    /\ now' = now + 1
    /\ UNCHANGED <<threads, messages, req, tasks, dispatched, outbox, last, bulk>>

----------------------------------------------------------------------------
\* sendThreadToWebhook, run from the setImmediate callback

Payload(tid, thread, msgs) ==
    [thread_id |-> tid, operator |-> thread.operator, model |-> thread.model,
     messages |-> [i \in DOMAIN msgs |->
                     [type |-> msgs[i].type, message |-> msgs[i].message,
                      date |-> msgs[i].date]],
     converted |-> thread.converted, last_message |-> thread.last_message,
     responded |-> thread.responded]

\* pool.query(threadQuery); no row throws, which the callback only logs
TaskFetchThread(k) ==
    /\ k \in DOMAIN tasks
    /\ tasks[k].pc = "scheduled"
    /\ tasks' = IF tasks[k].thread_id \in DOMAIN threads
                THEN [tasks EXCEPT ![k].pc = "gotThread",
                                   ![k].thread = Val(threads[tasks[k].thread_id])]
                ELSE RemoveAt(tasks, k)
    /\ UNCHANGED <<threads, messages, now, req, dispatched, outbox, last, bulk>>

\* pool.query(messagesQuery), the payload, and the start of fetch(webhookUrl)
TaskSend(k) ==
    /\ k \in DOMAIN tasks
    /\ tasks[k].pc = "gotThread"
    /\ LET p == Payload(tasks[k].thread_id, The(tasks[k].thread),
                        OrderByDateAsc(ThreadMessages(messages, tasks[k].thread_id)))
       IN /\ tasks' = [tasks EXCEPT ![k].pc = "posting", ![k].payload = <<p>>]
          /\ outbox' = [kind |-> "auto", payload |-> <<p>>, result |-> "pending",
                        posts |-> outbox.posts + 1]
    /\ UNCHANGED <<threads, messages, now, req, dispatched, last, bulk>>

\* a dispatch awaited by the handler: a failed POST turns the response of
\* the request into a 500
TaskSettleFailingCall(k, result) ==
    /\ k \in DOMAIN tasks
    /\ tasks[k].pc = "posting"
    /\ outbox' = [kind |-> "auto", payload |-> tasks[k].payload, result |-> result,
                  posts |-> outbox.posts]
    /\ tasks' = RemoveAt(tasks, k)
    /\ last' = IF result = "ok" THEN last
               ELSE Call("recordMessage", tasks[k].thread_id, 500, "webhook", NULL, {})
    /\ UNCHANGED <<threads, messages, now, req, dispatched, bulk>>

\* a callback that starts over when the POST has failed
TaskSettleRetrying(k, result) ==
    /\ k \in DOMAIN tasks
    /\ tasks[k].pc = "posting"
    /\ outbox' = [kind |-> "auto", payload |-> tasks[k].payload, result |-> result,
                  posts |-> outbox.posts]
    /\ tasks' = IF result = "ok" THEN RemoveAt(tasks, k)
                ELSE [tasks EXCEPT ![k].pc = "scheduled"]
    /\ UNCHANGED <<threads, messages, now, req, dispatched, last, bulk>>

\* the fetch settles: 2xx, another status (throws) or a network error
\* (rejects); either way the callback ends and nothing is written
TaskSettle(k, result) ==
    /\ k \in DOMAIN tasks
    /\ tasks[k].pc = "posting"
    /\ outbox' = [kind |-> "auto", payload |-> tasks[k].payload, result |-> result,
                  posts |-> outbox.posts]
    /\ tasks' = RemoveAt(tasks, k)
    /\ UNCHANGED <<threads, messages, now, req, dispatched, last, bulk>>

WebhookResults == {"ok", "non2xx", "neterr"}

----------------------------------------------------------------------------
\* PUT /api/threads/:id

\* what kind of request body a call carried, for the record of the call:
\* "range": some provided value is a number outside 0..100, alone
\* ("range") or next to a provided integer inside it ("mixed")
InRange(v) == v.t = "number" /\ 0 <= v.n /\ (v.n < 100 \/ (v.n = 100 /\ ~ v.half))
BodyNote(body) ==
    LET prov == {f \in ScoreFields : body[f].t \notin {"null", "undefined"}}
        nums == {f \in prov : body[f].t = "number"}
        out == {f \in nums : ~ InRange(body[f])}
        good == {f \in nums : InRange(body[f]) /\ ~ body[f].half}
    IN CASE prov = {} -> "empty"
         [] out # {} /\ good # {} -> "mixed"
         [] out # {} -> "range"
         [] nums # prov -> "type"
         [] good # prov -> "fraction"
         [] OTHER -> "valid"

\* the handler without `if (result.rows.length === 0)`
ApplyScoresNoRowCheck(tid, body) ==
    /\ CASE ~ ScoresValid(body) ->
              /\ last' = [Call("applyScores", tid, 400, BodyNote(body), NULL, {})
                             EXCEPT !.body = body]
              /\ UNCHANGED threads
         [] ScoresValid(body) /\ (\E f \in ScoreFields : ~ BindsAsInteger(body[f])) ->
              /\ last' = [Call("applyScores", tid, 500, BodyNote(body), NULL, {})
                             EXCEPT !.body = body]
              /\ UNCHANGED threads
         [] OTHER ->
              IF tid \notin DOMAIN threads
              THEN /\ last' = [Call("applyScores", tid, 200, BodyNote(body), NULL, {})
                             EXCEPT !.body = body]
                   /\ UNCHANGED threads
              ELSE /\ ~ Locked(tid)
                   /\ threads' = PutRow(threads, tid, updateQuery(threads[tid], body))
                   /\ last' = [Call("applyScores", tid, 200, BodyNote(body), NULL, {})
                             EXCEPT !.body = body]
    /\ UNCHANGED <<messages, now, req, tasks, dispatched, outbox, bulk>>

ApplyScores(tid, body) ==
    /\ CASE ~ ScoresValid(body) ->
              /\ last' = [Call("applyScores", tid, 400, BodyNote(body), NULL, {})
                             EXCEPT !.body = body]
              /\ UNCHANGED threads
         [] ScoresValid(body) /\ (\E f \in ScoreFields : ~ BindsAsInteger(body[f])) ->
              /\ last' = [Call("applyScores", tid, 500, BodyNote(body), NULL, {})
                             EXCEPT !.body = body]
              /\ UNCHANGED threads
         [] OTHER ->
              IF tid \notin DOMAIN threads
              THEN /\ last' = [Call("applyScores", tid, 404, BodyNote(body), NULL, {})
                             EXCEPT !.body = body]
                   /\ UNCHANGED threads
              ELSE /\ ~ Locked(tid)
                   /\ threads' = PutRow(threads, tid, updateQuery(threads[tid], body))
                   /\ last' = [Call("applyScores", tid, 200, BodyNote(body), NULL, {})
                             EXCEPT !.body = body]
    /\ UNCHANGED <<messages, now, req, tasks, dispatched, outbox, bulk>>

----------------------------------------------------------------------------
\* POST /api/analyze

\* req.body.filters: operators and models are arrays (absent: NULL),
\* startDate and endDate timestamps
NoBulkFilter == [operators |-> NULL, models |-> NULL, startDate |-> NULL,
                 endDate |-> NULL]

\* `filters.operators && filters.operators.length > 0`
NonEmptyArray(a) == a # NULL /\ Len(The(a)) > 0

\* conditions.join(' AND ') of the threads query
analyzeConditions(row, f) ==
    /\ NonEmptyArray(f.operators) =>
          row.operator \in {The(f.operators)[i] : i \in DOMAIN The(f.operators)}
    /\ NonEmptyArray(f.models) =>
          row.model \in {The(f.models)[i] : i \in DOMAIN The(f.models)}
    /\ f.startDate # NULL =>
          (row.last_message # NULL /\ The(row.last_message) >= The(f.startDate))
    /\ f.endDate # NULL =>
          (row.last_message # NULL /\ The(row.last_message) <= The(f.endDate))

\* LIMIT n
Limit(seq, n) == SubSeq(seq, 1, IF n < Len(seq) THEN n ELSE Len(seq))

\* the threads query: ... ORDER BY t.last_message DESC LIMIT numberOfChats
analyzeThreadsQuery(tbl, f, n) ==
    LET T == {t \in DOMAIN tbl : analyzeConditions(tbl[t], f)}
        order == Limit(OrderByLastMessageDesc(tbl, T), n)
    IN [i \in DOMAIN order |-> [thread_id |-> order[i], row |-> tbl[order[i]]]]

\* ORDER BY date DESC
RECURSIVE OrderByDateDesc(_)
OrderByDateDesc(S) ==
    IF S = {} THEN <<>>
    ELSE LET m == LastMessage(S) IN <<m>> \o OrderByDateDesc(S \ {m})

\* messagesQuery with ASC in place of DESC
analyzeMessagesQueryOldest(ms, tid, depth) ==
    Limit(OrderByDateAsc(ThreadMessages(ms, tid)), depth)

\* messagesQuery: ... WHERE thread_id = $1 ORDER BY date DESC LIMIT $2
analyzeMessagesQuery(ms, tid, depth) ==
    Limit(OrderByDateDesc(ThreadMessages(ms, tid)), depth)

\* threadData
threadData(tid, thread, msgs) ==
    [thread_id |-> tid, operator |-> thread.operator, model |-> thread.model,
     messages |-> [i \in DOMAIN msgs |->
                     [type |-> msgs[i].type, message |-> msgs[i].message,
                      date |-> msgs[i].date]],
     converted |-> thread.converted, last_message |-> thread.last_message,
     responded |-> thread.responded]

\* the response of POST /api/analyze: note tells which of its JSON bodies,
\* rows holds the thread payloads it counts in threadsAnalyzed
AnalyzeResponse(status, note, payload) ==
    [Call("runAnalysis", "", status, note, NULL, {}) EXCEPT !.rows = payload]

\* validation and the threads query
AnalyzeQuery(in) ==
    /\ bulk.pc = "idle"
    /\ IF in.numberOfChats = 0 \/ in.threadDepth = 0
       THEN /\ last' = AnalyzeResponse(400, "missing", <<>>)
            /\ UNCHANGED bulk
       ELSE IF in.filters = NULL
       THEN /\ last' = AnalyzeResponse(500, "error", <<>>)
            /\ UNCHANGED bulk
       ELSE LET rows == analyzeThreadsQuery(threads, The(in.filters), in.numberOfChats)
            IN IF rows = <<>>
               THEN /\ last' = AnalyzeResponse(200, "noThreads", <<>>)
                    /\ UNCHANGED bulk
               ELSE /\ bulk' = [pc |-> "fetching", in |-> in, rows |-> rows,
                                payload |-> <<>>]
                    /\ UNCHANGED last
    /\ UNCHANGED <<threads, messages, now, req, tasks, dispatched, outbox>>

\* one turn of the loop: the messages of the next thread
AnalyzeFetch ==
    /\ bulk.pc = "fetching"
    /\ Len(bulk.payload) < Len(bulk.rows)
    /\ LET next == bulk.rows[Len(bulk.payload) + 1]
           msgs == analyzeMessagesQuery(messages, next.thread_id, bulk.in.threadDepth)
       IN bulk' = [bulk EXCEPT !.payload =
                      Append(@, threadData(next.thread_id, next.row, msgs))]
    /\ UNCHANGED <<threads, messages, now, req, tasks, dispatched, outbox, last>>

\* the start of fetch(webhookUrl), which the handler awaits
AnalyzeSend ==
    /\ bulk.pc = "fetching"
    /\ Len(bulk.payload) = Len(bulk.rows)
    /\ bulk' = [bulk EXCEPT !.pc = "posting"]
    /\ outbox' = [kind |-> "bulk", payload |-> bulk.payload, result |-> "pending",
                  posts |-> outbox.posts]
    /\ UNCHANGED <<threads, messages, now, req, tasks, dispatched, last>>

\* a handler whose catch branch answers 500 when the POST has failed
AnalyzeSettleFailingCall(result) ==
    /\ bulk.pc = "posting"
    /\ outbox' = [kind |-> "bulk", payload |-> bulk.payload, result |-> result,
                  posts |-> outbox.posts]
    /\ last' = IF result = "ok"
               THEN AnalyzeResponse(200, "webhookSuccess", bulk.payload)
               ELSE AnalyzeResponse(500, "error", <<>>)
    /\ bulk' = IdleBulk
    /\ UNCHANGED <<threads, messages, now, req, tasks, dispatched>>

\* the fetch settles and the handler responds: res.json in both branches
AnalyzeSettle(result) ==
    /\ bulk.pc = "posting"
    /\ outbox' = [kind |-> "bulk", payload |-> bulk.payload, result |-> result,
                  posts |-> outbox.posts]
    /\ last' = AnalyzeResponse(200, IF result = "ok" THEN "webhookSuccess"
                                     ELSE "webhookFailed", bulk.payload)
    /\ bulk' = IdleBulk
    /\ UNCHANGED <<threads, messages, now, req, tasks, dispatched>>

----------------------------------------------------------------------------
\* GET /api/threads: one pool.query on the committed tables; arg records
\* NOW() of the query
ListThreads(f) ==
    /\ last' = [Call("listThreads", "", 200, "", Val(now), {})
                   EXCEPT !.filter = f,
                          !.rows = listThreadsQuery(threads, messages, now, f)]
    /\ UNCHANGED <<threads, messages, now, req, tasks, dispatched, outbox, bulk>>

----------------------------------------------------------------------------
\* Inputs and specifications.

Directions == {"incoming", "outgoing"}

\* request bodies of POST /api/threads: converted absent, "Yes" or "No"
ConvertedInputs == {NULL, Val("Yes"), Val("No")}

Input(tid, op, type, conv) ==
    [thread_id |-> tid, operator |-> op, model |-> "m1", type |-> type,
     message |-> "hi", converted |-> conv]

\* score values of PUT bodies
ScoreInputs == {JNull, JNum(85), JNum(40), JNum(150), JNum(-1), JHalf(85), JStr}

\* bodies that provide one field, with any value, alone or together with a
\* valid value of a second field
Companions == {"affection_score", "sales_ability"}

PairedInputs == {JNull, JNum(85), JNum(150)}

Bodies ==
    {[NoScores EXCEPT ![f] = v] : f \in ScoreFields, v \in ScoreInputs}
    \cup {[[NoScores EXCEPT ![g] = JNum(40)] EXCEPT ![f] = v] :
            f \in ScoreFields, g \in Companions, v \in PairedInputs}

\* the number of score cells of the table that hold a value
Scored(tbl) == Cardinality({c \in (DOMAIN tbl) \X ScoreFields : tbl[c[1]][c[2]] # NULL})

\* bodies that provide one valid score
ValidBodies == {[NoScores EXCEPT ![f] = JNum(85)] : f \in ScoreFields}

\* One client at a time: messages of either direction, with any converted,
\* and valid score updates on thread t1 (which has no row before its first
\* message).
Next ==
    \/ \E type \in Directions, conv \in ConvertedInputs :
          /\ Len(messages) < MaxShort
          /\ RecordMessage(Input("t1", "opA", type, conv))
    \/ \E body \in ValidBodies :
          /\ ApplyScores("t1", body)
          /\ Scored(threads') <= MaxScored

Spec == Init /\ [][Next]_vars

\* One client at a time: score updates with every kind of body on thread
\* t1, between its first messages, and on t2, which has no row.
NextScores ==
    \/ /\ Len(messages) < MaxFirst
       /\ RecordMessage(Input("t1", "opA", "incoming", NULL))
    \/ \E tid \in ThreadIds, body \in Bodies :
          /\ ApplyScores(tid, body)
          /\ Scored(threads') <= MaxScored

SpecScores == Init /\ [][NextScores]_vars

\* One client at a time, one thread: a long conversation and its dispatches.
NextThread ==
    \/ \E type \in Directions :
          /\ Len(messages) < MaxMsgs
          /\ now <= MaxTime
          /\ RecordMessage(Input("t1", "opA", type, NULL))
    \/ (now < MaxTime /\ Tick)
    \/ \E k \in DOMAIN tasks : TaskFetchThread(k)
    \/ \E k \in DOMAIN tasks : TaskSend(k)
    \/ \E k \in DOMAIN tasks, result \in WebhookResults : TaskSettle(k, result)

SpecThread == Init /\ [][NextThread]_vars

\* a message of thread t1 (operator opA, model m1) or t2 (opB, m2)
ListInput(tid, type) ==
    [thread_id |-> tid, operator |-> IF tid = "t1" THEN "opA" ELSE "opB",
     model |-> IF tid = "t1" THEN "m1" ELSE "m2", type |-> type,
     message |-> "hi", converted |-> NULL]

\* queries that supply one parameter
OneParameter ==
    {[NoFilter EXCEPT !.operator = Val(v)] : v \in {<<>>, <<"opA">>, <<"opA", "opB">>}}
    \cup {[NoFilter EXCEPT !.model = Val(<<"m2">>)],
          [NoFilter EXCEPT !.start = Val(2)],
          [NoFilter EXCEPT !.end = Val(2)]}
    \cup {[NoFilter EXCEPT !.lastMessageSince = Val(v)] :
             v \in {"", "all", "30m", "60m", "2h", "1h"}}
    \cup {[NoFilter EXCEPT !.analyzedOnly = Val(v)] : v \in {"true", "false"}}
    \cup {[NoFilter EXCEPT !.lastMessageType = Val(v)] :
             v \in {"incoming", "outgoing", "both"}}

\* queries that supply an age bucket and another parameter, or all of them
Conjunctions ==
    {[g EXCEPT !.lastMessageSince = Val(v)] :
        g \in {[NoFilter EXCEPT !.operator = Val(<<"opA">>)],
               [NoFilter EXCEPT !.analyzedOnly = Val("true")],
               [NoFilter EXCEPT !.lastMessageType = Val("incoming")]},
        v \in {"60m", "2h"}}
    \cup {[operator |-> Val(<<"opA", "opB">>), model |-> Val(<<"m1">>),
           start |-> Val(1), end |-> Val(3), lastMessageSince |-> Val("2h"),
           analyzedOnly |-> Val("true"), lastMessageType |-> Val("outgoing")]}

Filters == {NoFilter} \cup OneParameter \cup Conjunctions

\* a body that provides the three scores of the first migration
ThreeScores ==
    [NoScores EXCEPT !.acknowledgment_score = JNum(85), !.affection_score = JNum(85),
                     !.personalization_score = JNum(85)]

\* One client at a time: messages on two threads, time passing, a score
\* update on t1, and listings with every query of Filters.
NextList ==
    \/ \E tid \in ThreadIds, type \in Directions :
          /\ Len(messages) < MaxList
          /\ RecordMessage(ListInput(tid, type))
    \/ (now < MaxList + 2 /\ Tick)
    \/ ApplyScores("t1", ThreeScores)
    \/ \E f \in Filters : ListThreads(f)

SpecList == Init /\ [][NextList]_vars

\* request bodies of POST /api/analyze
BulkFilters ==
    {NULL, Val(NoBulkFilter),
     Val([NoBulkFilter EXCEPT !.operators = Val(<<>>)]),
     Val([NoBulkFilter EXCEPT !.operators = Val(<<"opA">>)]),
     Val([NoBulkFilter EXCEPT !.startDate = Val(2)])}

AnalyzeInputs ==
    [filters : BulkFilters, numberOfChats : 0..2, threadDepth : 0..2]

\* One client at a time: messages on two threads and bulk analyses.
NextBulk ==
    \/ \E tid \in ThreadIds, type \in Directions :
          /\ Len(messages) < MaxBulk
          /\ bulk.pc = "idle"
          /\ RecordMessage(ListInput(tid, type))
    \/ \E in \in AnalyzeInputs : AnalyzeQuery(in)
    \/ AnalyzeFetch
    \/ AnalyzeSend
    \/ \E result \in WebhookResults : AnalyzeSettle(result)

SpecBulk == Init /\ [][NextBulk]_vars

\* the bulk analyses asked for next to the write path
HookAnalyses ==
    [filters : {Val(NoBulkFilter)}, numberOfChats : {1}, threadDepth : {1, 2}]

\* the direction of the next message of a conversation that alternates
Alternating == IF Len(messages) % 2 = 0 THEN "incoming" ELSE "outgoing"

\* Both outbound calls: an alternating conversation on t1 with its automatic
\* dispatches, and bulk analyses in between.
NextHooks ==
    \/ /\ Len(messages) < MaxHook
       /\ RecordMessage(Input("t1", "opA", Alternating, NULL))
    \/ \E k \in DOMAIN tasks : TaskFetchThread(k)
    \/ \E k \in DOMAIN tasks : TaskSend(k)
    \/ \E k \in DOMAIN tasks, result \in WebhookResults : TaskSettle(k, result)
    \/ \E in \in HookAnalyses : AnalyzeQuery(in)
    \/ AnalyzeFetch
    \/ AnalyzeSend
    \/ \E result \in WebhookResults : AnalyzeSettle(result)

SpecHooks == Init /\ [][NextHooks]_vars

\* values of the type field of a request body: the two directions, another
\* string that fits VARCHAR(10), and the empty string
RequestTypes == Directions \cup {"note", ""}

\* One client at a time: messages of any type on two threads.
NextTypes ==
    \/ \E tid \in ThreadIds, type \in RequestTypes :
          /\ Len(messages) < MaxTypes
          /\ RecordMessage(ListInput(tid, type))
    \/ \E tid \in ThreadIds, type \in RequestTypes :
          Reject(ListInput(tid, type))

SpecTypes == Init /\ [][NextTypes]_vars

\* Two clients at once on thread t1, statement by statement.
NextRace ==
    \/ \E r \in Reqs, type \in Directions :
          /\ now <= MaxRace
          /\ Begin(r, Input("t1", "opA", type, NULL))
    \/ \E r \in Reqs : Upsert(r)
    \/ \E r \in Reqs : Insert(r)
    \/ \E r \in Reqs : Calculate(r)
    \/ \E r \in Reqs : Count(r)
    \/ \E r \in Reqs : Commit(r)
    \/ \E r \in Reqs : Respond(r)

SpecRace == Init /\ [][NextRace]_vars

\* A writer on thread t1, statement by statement, next to the readers:
\* listings and a bulk analysis of the newest thread.
NextReaders ==
    \/ \E type \in Directions :
          /\ now <= MaxRead
          /\ Begin("r1", Input("t1", "opA", type, NULL))
    \/ Upsert("r1")
    \/ Insert("r1")
    \/ Calculate("r1")
    \/ Count("r1")
    \/ Commit("r1")
    \/ Respond("r1")
    \/ ListThreads(NoFilter)
    \/ \E in \in HookAnalyses : AnalyzeQuery(in)
    \/ AnalyzeFetch
    \/ AnalyzeSend
    \/ \E result \in WebhookResults : AnalyzeSettle(result)

SpecReaders == Init /\ [][NextReaders]_vars

\* request bodies on thread t1 that name either operator and either model
OwnerInputs ==
    {[thread_id |-> "t1", operator |-> op, model |-> m, type |-> type,
      message |-> "hi", converted |-> NULL] :
        op \in {"opA", "opB"}, m \in {"m1", "m2"}, type \in Directions}

\* One client at a time: messages on t1 from changing operators and models.
NextOwner ==
    \E in \in OwnerInputs :
        /\ Len(messages) < MaxOwner
        /\ RecordMessage(in)

SpecOwner == Init /\ [][NextOwner]_vars

\* bodies that give a score of either migration a value or null, and the
\* body that gives null for every score
NullBodies ==
    {[NoScores EXCEPT ![f] = v] :
        f \in {"affection_score", "sales_ability"}, v \in {JNull, JNum(85)}}
    \cup {[f \in ScoreFields |-> JNull]}

\* One client at a time: messages on t1 and score updates that provide
\* values and nulls.
NextClear ==
    \/ \E type \in Directions :
          /\ Len(messages) < MaxClear
          /\ RecordMessage(Input("t1", "opA", type, NULL))
    \/ \E body \in NullBodies : ApplyScores("t1", body)

SpecClear == Init /\ [][NextClear]_vars

\* One request at a time on thread t1, statement by statement, where the
\* statement a request awaits may throw; score updates in between; and the
\* dispatch callbacks.
NextTxn ==
    \/ \E type \in Directions :
          /\ now <= MaxTxn
          /\ Begin("r1", Input("t1", "opA", type, NULL))
    \/ Upsert("r1")
    \/ Insert("r1")
    \/ Calculate("r1")
    \/ Count("r1")
    \/ Commit("r1")
    \/ Respond("r1")
    \/ Fail("r1")
    \/ ApplyScores("t1", [NoScores EXCEPT !.affection_score = JNum(85)])
    \/ \E k \in DOMAIN tasks : TaskFetchThread(k)
    \/ \E k \in DOMAIN tasks : TaskSend(k)
    \/ \E k \in DOMAIN tasks, result \in WebhookResults : TaskSettle(k, result)

SpecTxn == Init /\ [][NextTxn]_vars

----------------------------------------------------------------------------
\* Properties.

RECURSIVE AnsweredPairs(_, _, _)
AnsweredPairs(seq, i, open) ==
    IF i > Len(seq) THEN {}
    ELSE IF seq[i].type = "incoming"
         THEN AnsweredPairs(seq, i + 1, Append(open, seq[i]))
    ELSE IF seq[i].type = "outgoing" /\ open # <<>>
         THEN {<<open[Len(open)], seq[i]>>}
              \cup AnsweredPairs(seq, i + 1, SubSeq(open, 1, Len(open) - 1))
    ELSE AnsweredPairs(seq, i + 1, open)

\* C2: avg_response_time is the mean of outgoing.date - incoming.date over
\* exactly the pairs of that rule (in incoming, outgoing, outgoing only the
\* first outgoing forms a pair), and NULL when there is no pair.
AvgOverAnsweredPairs ==
    \A t \in DOMAIN threads :
        LET P == AnsweredPairs(OrderByDateAsc(ThreadMessages(messages, t)), 1, <<>>)
        IN threads[t].avg_response_time =
              IF P = {} THEN NULL
              ELSE Val(Fraction(SumResponseTime(P), Cardinality(P)))

\* C3: the automatic dispatch fires at most once per thread: messages
\* recorded on a thread already past 3 outgoing / 3 incoming do not
\* dispatch it again.
DispatchAtMostOnce == \A t \in ThreadIds : dispatched[t] <= 1

\* the steps of a request between BEGIN and the end of its transaction
InTransaction == {"begun", "upserted", "inserted", "calculated", "counted"}

\* C6: the tables change only in the COMMIT step of a request, and a request
\* that fails at any step of its transaction (upsert, insert, recomputation,
\* counting, commit) is answered with a server error and leaves threads and
\* messages as they are; so the call has written nothing.
FailedCallWritesNothing ==
    [][/\ (threads' # threads \/ messages' # messages) =>
             \/ \E r \in Reqs : req[r].pc = "counted" /\ req'[r].pc = "committed"
             \/ (last'.op = "applyScores" /\ messages' = messages)
       /\ \A r \in Reqs :
             (req[r].pc \in InTransaction /\ req'[r].pc = "idle") =>
                 /\ last'.op = "recordMessage"
                 /\ last'.status = 500
                 /\ last'.thread_id = req[r].in.thread_id
                 /\ threads' = threads
                 /\ messages' = messages
                 /\ tasks' = tasks]_vars

\* the COMMIT of a request failed on a thread that holds a score, after the
\* request had upserted the thread and inserted its message
CommitFailedWitness ==
    /\ last.op = "recordMessage"
    /\ last.status = 500
    /\ last.note = "counted"
    /\ last.thread_id \in DOMAIN threads
    /\ threads[last.thread_id].affection_score = Val(85)
    /\ Len(messages) >= 1

\* C7: a request whose transaction has committed can respond at once,
\* whatever the state of the dispatch callbacks; its response is 201; and no
\* step of a dispatch callback (whatever the outcome of its POST) changes a
\* response or a request.
RespondsWithoutWebhook ==
    /\ [](\A r \in Reqs : req[r].pc = "committed" => ENABLED Respond(r))
    /\ [][/\ \A r \in Reqs :
               (req[r].pc = "committed" /\ req'[r].pc # "committed") =>
                   /\ last'.op = "recordMessage"
                   /\ last'.status = 201
                   /\ last'.thread_id = req[r].in.thread_id
                   /\ outbox' = outbox
         /\ (outbox' # outbox \/ Len(tasks') < Len(tasks)) =>
               (last' = last /\ req' = req)]_vars

\* the POST of a dispatch failed after the request that scheduled it was
\* answered 201
WebhookFailedWitness ==
    /\ outbox.result \in {"non2xx", "neterr"}
    /\ dispatched["t1"] >= 1
    /\ last.op = "recordMessage"
    /\ last.status = 201

\* the thread of the message a step commits
Newest(ms) == ms[Len(ms)].thread_id

\* C4: every successful POST /api/threads sets acknowledgment_score,
\* affection_score and personalization_score of its thread to NULL,
\* whatever PUT /api/threads/:id had stored in them.
RecordMessageResetsThreeScores ==
    [][messages' # messages =>
          /\ Newest(messages') \in DOMAIN threads'
          /\ threads'[Newest(messages')].acknowledgment_score = NULL
          /\ threads'[Newest(messages')].affection_score = NULL
          /\ threads'[Newest(messages')].personalization_score = NULL]_vars

\* a message was recorded on a thread whose affection_score held a value
ResetWitness ==
    /\ last.op = "recordMessage"
    /\ last.status = 201
    /\ "affection_score" \in last.cleared
    /\ threads[last.thread_id].affection_score = NULL

\* C5: after a successful POST /api/threads every score field that PUT
\* /api/threads/:id can write is NULL on the thread.
RecordMessageResetsAllScores ==
    (last.op = "recordMessage" /\ last.status = 201) =>
        \A f \in ScoreFields : threads[last.thread_id][f] = NULL

\* C8: PUT /api/threads/:id with a provided score that is a number outside
\* 0..100 is answered 400 and changes no score of any thread, the valid
\* scores of the same request included.
OutOfRangeScoreRejected ==
    [][(last'.op = "applyScores" /\ last'.note \in {"range", "mixed"}) =>
          (last'.status = 400 /\ threads' = threads)]_vars

\* a request with an out-of-range score next to a valid one was rejected,
\* on a thread that holds scores
RejectedWitness ==
    /\ last.op = "applyScores"
    /\ last.note = "mixed"
    /\ last.status = 400
    /\ last.thread_id \in DOMAIN threads
    /\ \E f \in ScoreFields : threads[last.thread_id][f] # NULL

\* new is old with exactly the provided scores of body written
OnlyProvidedWritten(old, new, body) ==
    /\ \A f \in ScoreFields :
          new[f] = IF body[f].t = "number" THEN Val(body[f].n) ELSE old[f]
    /\ new.converted = old.converted
    /\ new.last_message = old.last_message
    /\ new.avg_response_time = old.avg_response_time
    /\ new.responded = old.responded
    /\ new.operator = old.operator
    /\ new.model = old.model

\* C9: a PUT /api/threads/:id that provides a subset of the score fields
\* writes exactly those fields and leaves every other score field and every
\* other field of the thread unchanged.
ApplyScoresWritesOnlyProvided ==
    [][(last'.op = "applyScores" /\ last'.status = 200) =>
          /\ last'.thread_id \in DOMAIN threads
          /\ OnlyProvidedWritten(threads[last'.thread_id],
                                 threads'[last'.thread_id], last'.body)
          /\ \A t \in DOMAIN threads \ {last'.thread_id} : threads'[t] = threads[t]
          /\ DOMAIN threads' = DOMAIN threads
          /\ messages' = messages]_vars

\* a successful score update on a thread that holds two different scores
PartialUpdateWitness ==
    /\ last.op = "applyScores"
    /\ last.status = 200
    /\ last.note = "valid"
    /\ \E f \in ScoreFields, g \in ScoreFields :
          /\ threads[last.thread_id][f] = Val(85)
          /\ threads[last.thread_id][g] = Val(40)

\* C10: once converted is "Yes" on a thread, no later POST /api/threads
\* (converted absent or anything else) and no PUT /api/threads/:id changes it.
ConvertedStaysYes ==
    [][\A t \in DOMAIN threads :
          threads[t].converted = Val("Yes") =>
              (t \in DOMAIN threads' /\ threads'[t].converted = Val("Yes"))]_vars

\* a message carrying converted "No" was recorded on a converted thread
ConvertedWitness ==
    /\ last.op = "recordMessage"
    /\ last.status = 201
    /\ last.arg = Val("No")
    /\ Len(messages) > 1
    /\ threads[last.thread_id].converted = Val("Yes")

\* the table holds exactly incoming, outgoing, incoming, outgoing, incoming,
\* outgoing, all on thread t1
SixAlternating ==
    /\ Len(messages) = MinIncoming + MinOutgoing
    /\ \A i \in DOMAIN messages :
          /\ messages[i].thread_id = "t1"
          /\ messages[i].type = IF i % 2 = 1 THEN "incoming" ELSE "outgoing"

\* the payload p lists exactly the messages of the table, oldest first
ListsAllMessages(p) ==
    /\ Len(p.messages) = Len(messages)
    /\ \A i \in DOMAIN messages :
          /\ p.messages[i].type = messages[i].type
          /\ p.messages[i].message = messages[i].message
          /\ p.messages[i].date = messages[i].date

CommittedOf(t, d) == {i \in DOMAIN messages :
                        messages[i].thread_id = t /\ messages[i].type = d}

\* C12: a thread for which an automatic dispatch has been scheduled (or is
\* running) has at least 3 committed incoming and at least 3 committed
\* outgoing messages; so a request that leaves either count below 3 has
\* scheduled none.
DispatchedHasThreeEach ==
    \A t \in ThreadIds :
        (dispatched[t] >= 1 \/ \E k \in DOMAIN tasks : tasks[k].thread_id = t) =>
            /\ Cardinality(CommittedOf(t, "incoming")) >= 3
            /\ Cardinality(CommittedOf(t, "outgoing")) >= 3

\* a dispatch was scheduled by the request that committed the sixth message
DispatchedWitness ==
    /\ dispatched["t1"] = 1
    /\ Len(messages) = 6
    /\ last.op = "recordMessage"
    /\ last.status = 201
    /\ tasks # <<>>

\* the thread ids of the rows of a response
RowIds(rows) == {rows[i].thread_id : i \in DOMAIN rows}

\* the age buckets of the queries, in minutes
BucketMinutes == ("30m" :> 30) @@ ("60m" :> 60) @@ ("2h" :> 120)

\* C13: GET /api/threads with lastMessageSince=2h (likewise 30m, 60m)
\* returns exactly the threads that the same query without lastMessageSince
\* returns and whose last_message is at or after NOW() minus the interval;
\* with lastMessageSince=all or absent it returns all of those.
BucketKeepsRecentThreads ==
    last.op = "listThreads" =>
        LET f == last.filter
            clock == The(last.arg)
            others == RowIds(listThreadsQuery(threads, messages, clock,
                                              [f EXCEPT !.lastMessageSince = NULL]))
            recent == IF f.lastMessageSince # NULL
                         /\ The(f.lastMessageSince) \in DOMAIN BucketMinutes
                      THEN {t \in others :
                              The(threads[t].last_message) * 60 >=
                                  clock * 60 - BucketMinutes[The(f.lastMessageSince)]}
                      ELSE others
        IN (f.lastMessageSince \in {NULL, Val("all"), Val("30m"), Val("60m"), Val("2h")}) =>
               RowIds(last.rows) = recent

\* lastMessageSince=2h returned one of two threads
BucketWitness ==
    /\ last.op = "listThreads"
    /\ last.filter = [NoFilter EXCEPT !.lastMessageSince = Val("2h")]
    /\ Cardinality(DOMAIN threads) = 2
    /\ Len(last.rows) = 1

----------------------------------------------------------------------------
\* the threads that pass the filter of a bulk analysis
BulkMatching(f) ==
    {t \in DOMAIN threads :
        /\ \/ f.operators = NULL
           \/ The(f.operators) = <<>>
           \/ \E i \in DOMAIN The(f.operators) : The(f.operators)[i] = threads[t].operator
        /\ \/ f.models = NULL
           \/ The(f.models) = <<>>
           \/ \E i \in DOMAIN The(f.models) : The(f.models)[i] = threads[t].model
        /\ \/ f.startDate = NULL
           \/ \E d \in threads[t].last_message : d >= The(f.startDate)
        /\ \/ f.endDate = NULL
           \/ \E d \in threads[t].last_message : d <= The(f.endDate)}

\* p holds the n newest of the threads in M, or all of them if fewer
NewestThreads(p, M, n) ==
    LET P == {p[i].thread_id : i \in DOMAIN p}
    IN /\ Len(p) <= n
       /\ Cardinality(P) = Len(p)
       /\ P \subseteq M
       /\ Len(p) = (IF Cardinality(M) < n THEN Cardinality(M) ELSE n)
       /\ \A t \in P, u \in M \ P :
             \E d \in threads[t].last_message :
                \A e \in threads[u].last_message : d >= e

\* ms holds the k most recent messages of thread tid, or all if fewer
MostRecentMessages(ms, tid, k) ==
    LET all == ThreadMessages(messages, tid)
        D == {ms[i].date : i \in DOMAIN ms}
    IN /\ Len(ms) <= k
       /\ Cardinality(D) = Len(ms)
       /\ \A i \in DOMAIN ms :
             \E m \in all : /\ m.date = ms[i].date
                             /\ m.type = ms[i].type
                             /\ m.message = ms[i].message
       /\ Len(ms) = (IF Cardinality(all) < k THEN Cardinality(all) ELSE k)
       /\ \A m \in all : m.date \notin D => \A d \in D : d > m.date

\* C15: the payload that runAnalysis posts holds at most numberOfChats
\* threads, namely the threads matching the filter with the newest
\* last_message, and for each of them at most threadDepth messages, namely
\* the most recent messages of that thread.
BulkPayloadNewest ==
    [][(bulk.pc = "fetching" /\ bulk'.pc = "posting") =>
         /\ outbox'.kind = "bulk"
         /\ NewestThreads(outbox'.payload, BulkMatching(The(bulk.in.filters)),
                          bulk.in.numberOfChats)
         /\ \A i \in DOMAIN outbox'.payload :
               MostRecentMessages(outbox'.payload[i].messages,
                                  outbox'.payload[i].thread_id,
                                  bulk.in.threadDepth)]_vars

\* a posted payload of one thread out of two matching ones, holding one of
\* the two messages of that thread
BulkPayloadWitness ==
    /\ bulk.pc = "posting"
    /\ outbox.kind = "bulk"
    /\ Len(outbox.payload) = 1
    /\ Cardinality(BulkMatching(The(bulk.in.filters))) = 2
    /\ Len(outbox.payload[1].messages) = 1
    /\ Cardinality(ThreadMessages(messages, outbox.payload[1].thread_id)) = 2

----------------------------------------------------------------------------
\* the step in which the POST of an automatic dispatch settles as failed
AutoPostFails ==
    \E k \in DOMAIN tasks :
        /\ tasks[k].pc = "posting"
        /\ tasks' = RemoveAt(tasks, k)
        /\ outbox'.kind = "auto"
        /\ outbox'.payload = tasks[k].payload
        /\ outbox'.result \in {"non2xx", "neterr"}

\* the step in which the POST of a bulk analysis settles as failed
BulkPostFails ==
    /\ bulk.pc = "posting"
    /\ bulk'.pc = "idle"
    /\ outbox'.result \in {"non2xx", "neterr"}

\* C16 as stated: a failed outbound POST is never surfaced: the response of
\* recordMessage is not touched by it, and runAnalysis answers what it
\* answers when the POST succeeds.
FailureNeverSurfaced ==
    [][/\ AutoPostFails => last' = last
       /\ BulkPostFails =>
             last' = AnalyzeResponse(200, "webhookSuccess", bulk.payload)]_vars

\* C16 (amended): a failed outbound POST never turns a response into an
\* error: the 201 of recordMessage is not touched by it, and runAnalysis
\* still answers 200 with success and the count of threads, but its body
\* reports the failure (webhookSuccess false).
FailureKeepsSuccessStatus ==
    [][/\ AutoPostFails => last' = last
       /\ BulkPostFails =>
             /\ last'.op = "runAnalysis"
             /\ last'.status = 200
             /\ last'.note = "webhookFailed"
             /\ last'.rows = bulk.payload]_vars

\* a bulk analysis has answered after its POST failed, with automatic
\* dispatches posted before it
BulkFailureWitness ==
    /\ last.op = "runAnalysis"
    /\ last.status = 200
    /\ last.note = "webhookFailed"
    /\ outbox.kind = "bulk"
    /\ outbox.result = "neterr"
    /\ outbox.posts > 0

----------------------------------------------------------------------------
\* the automatic dispatches scheduled so far, and those among them whose
\* callback has not reached its POST yet
Dispatches == dispatched["t1"] + dispatched["t2"]
NotYetPosted ==
    Cardinality({k \in DOMAIN tasks : tasks[k].pc \in {"scheduled", "gotThread"}})

\* C17: after the POST of an automatic dispatch fails no further POST is
\* made for that dispatch (every dispatch that has run made exactly one
\* POST, and the failed one is not kept for later), and the step in which
\* the POST fails leaves the threads and messages tables as they were.
FailedPostNotRetried ==
    /\ [](outbox.posts + NotYetPosted = Dispatches)
    /\ [][AutoPostFails =>
            /\ threads' = threads
            /\ messages' = messages
            /\ Len(tasks') = Len(tasks) - 1
            /\ outbox'.posts = outbox.posts]_vars

\* the POST of the only dispatch has failed, no callback is left, and one
\* POST was made
FailedPostWitness ==
    /\ outbox.kind = "auto"
    /\ outbox.result \in {"non2xx", "neterr"}
    /\ Dispatches = 1
    /\ tasks = <<>>
    /\ outbox.posts = 1

----------------------------------------------------------------------------
\* the members of a comma-separated parameter; none if absent or empty
Members(q) == IF q = NULL THEN {} ELSE {The(q)[i] : i \in DOMAIN The(q)}

\* thread t satisfies every field that filter f supplies, at time clock
SatisfiesFilter(t, f, clock) ==
    LET row == threads[t]
        newest == LastMessage(ThreadMessages(messages, t))
    IN /\ Members(f.operator) # {} => row.operator \in Members(f.operator)
       /\ Members(f.model) # {} => row.model \in Members(f.model)
       /\ \A d \in f.start : \E x \in row.last_message : x >= d
       /\ \A d \in f.end : \E x \in row.last_message : x <= d
       /\ \A b \in f.lastMessageSince \ {"", "all"} :
             \E x \in row.last_message : x * 60 >= clock * 60 - BucketMinutes[b]
       /\ f.analyzedOnly = Val("true") =>
             \A c \in {"acknowledgment_score", "affection_score",
                        "personalization_score"} : row[c] # NULL
       /\ \A d \in f.lastMessageType : newest.type = d

\* the values of the filter fields that the filter is defined for
FilterInDomain(f) ==
    /\ f.lastMessageSince \subseteq {"", "all"} \cup DOMAIN BucketMinutes
    /\ f.analyzedOnly \subseteq {"true", "false"}
    /\ f.lastMessageType \subseteq {"incoming", "outgoing"}

----------------------------------------------------------------------------
\* C19: recordMessage with a type that is neither incoming nor outgoing is
\* rejected with a client error, and neither a message nor a thread row is
\* written for it: every stored message has one of the two directions, and
\* every thread row has a message.
TypeOutsideEnumRejected ==
    /\ \A i \in DOMAIN messages : messages[i].type \in Directions
    /\ \A t \in DOMAIN threads : ThreadMessages(messages, t) # {}
    /\ (last.op = "recordMessage" /\ last.note \notin Directions) => last.status = 400

----------------------------------------------------------------------------
\* C20: applyScores accepts a provided score only if it is null or an
\* integer in [0,100]: a body with a number that is not an integer (85.5)
\* is answered with a client error.
FractionalScoreRejected ==
    (/\ last.op = "applyScores"
     /\ \E f \in ScoreFields : last.body[f].t = "number" /\ last.body[f].half)
        => last.status \in 400..499

----------------------------------------------------------------------------
\* C21: in every reachable state the converted field of every thread is
\* "Yes" or null, whatever converted values the requests carried.
ConvertedYesOrNull ==
    \A t \in DOMAIN threads : threads[t].converted \in {NULL, Val("Yes")}

----------------------------------------------------------------------------
\* C22: in every outbound request, automatic or bulk, each thread payload
\* lists its messages by ascending date.
PayloadChronological ==
    \A i \in DOMAIN outbox.payload :
        LET ms == outbox.payload[i].messages
        IN \A j, k \in DOMAIN ms : j < k => ms[j].date < ms[k].date

----------------------------------------------------------------------------
\* no transaction is in progress
AllCommitted == \A r \in Reqs : req[r].pc \in {"idle", "committed"}

\* C23: for any interleaving of concurrent POST /api/threads on one thread,
\* once all of them have committed, last_message is the maximum date of the
\* thread's messages, and avg_response_time and responded are what the
\* recomputation yields on the complete message set of the thread.
DerivedFieldsMatchScan ==
    AllCommitted =>
        \A t \in DOMAIN threads :
            LET S == ThreadMessages(messages, t)
            IN /\ S # {}
               /\ \E d \in threads[t].last_message :
                     /\ \E m \in S : m.date = d
                     /\ \A m \in S : m.date <= d
               /\ threads[t].avg_response_time = avgResponseTimeQuery(S)
               /\ \E m \in S :
                     /\ \A x \in S : x.date <= m.date
                     /\ threads[t].responded =
                           Val(IF m.type = "incoming" THEN "Yes" ELSE "No")

\* two overlapping requests have committed in the reverse order of their
\* timestamps, an incoming message and the outgoing answer
RaceWitness ==
    /\ AllCommitted
    /\ Len(messages) = 2
    /\ messages[1].date > messages[2].date
    /\ messages[1].type = "outgoing"
    /\ messages[2].type = "incoming"

----------------------------------------------------------------------------
\* the newest date among the messages of a list
NewestDate(ms) ==
    {ms[i].date : i \in {j \in DOMAIN ms : \A k \in DOMAIN ms : ms[k].date <= ms[j].date}}

\* C24: a reader that runs next to a POST /api/threads transaction sees none
\* of the transaction's effects or all of them: the committed thread row
\* always goes with the committed messages, every listed row goes with the
\* messages counted for it, and in every posted payload the thread fields
\* go with the messages listed next to them.
ReadersSeeAllOrNothing ==
    /\ [](\A t \in DOMAIN threads :
            LET S == ThreadMessages(messages, t)
            IN S # {} /\ threads[t].last_message = MaxDate(S))
    /\ [][last'.op = "listThreads" /\ last' # last =>
            \A i \in DOMAIN last'.rows :
                LET S == ThreadMessages(messages, last'.rows[i].thread_id)
                IN /\ last'.rows[i].message_count = Cardinality(S)
                   /\ last'.rows[i].last_message = MaxDate(S)]_vars
    /\ [](\A i \in DOMAIN outbox.payload :
            outbox.payload[i].last_message = NewestDate(outbox.payload[i].messages))

----------------------------------------------------------------------------
\* the thread ids that messages reference
Referenced == {messages[i].thread_id : i \in DOMAIN messages}

\* C25: a thread row exists for a thread_id exactly if a message references
\* it: the row appears in the step that stores the first message of the id,
\* and no step removes a thread row or a message.
RowIffMessage ==
    /\ [](DOMAIN threads = Referenced)
    /\ [][/\ DOMAIN threads \subseteq DOMAIN threads'
          /\ Len(messages') >= Len(messages)
          /\ SubSeq(messages', 1, Len(messages)) = messages
          /\ \A t \in DOMAIN threads' \ DOMAIN threads :
                /\ Len(messages') = Len(messages) + 1
                /\ messages'[Len(messages')].thread_id = t
                /\ last'.op = "recordMessage"]_vars

\* a score update on t1, which has no message, found no row and created
\* none, while t2 has its row
NoRowWitness ==
    /\ DOMAIN threads = {"t2"}
    /\ Referenced = {"t2"}
    /\ last.op = "applyScores"
    /\ last.thread_id = "t1"
    /\ last.status = 404

----------------------------------------------------------------------------
\* C26: an automatic dispatch is scheduled only by a request whose
\* transaction has committed, in the step that answers it 201; a request
\* that ends in its transaction (rollback or failed COMMIT) schedules
\* nothing and posts nothing; and every POST of a dispatch belongs to a
\* dispatch scheduled that way.
DispatchOnlyAfterCommit ==
    /\ [][/\ (Len(tasks') > Len(tasks) \/ dispatched' # dispatched) =>
               \E r \in Reqs :
                   /\ req[r].pc = "committed"
                   /\ req'[r].pc = "idle"
                   /\ last'.status = 201
                   /\ tasks' = Append(tasks, tasks'[Len(tasks')])
                   /\ tasks'[Len(tasks')].thread_id = req[r].in.thread_id
          /\ \A r \in Reqs :
               (req[r].pc \in InTransaction /\ req'[r].pc = "idle") =>
                   /\ tasks' = tasks
                   /\ dispatched' = dispatched
                   /\ outbox' = outbox
          /\ outbox'.posts > outbox.posts =>
               \E k \in DOMAIN tasks : tasks[k].pc = "gotThread"]_vars
    /\ [](Len(tasks) <= Dispatches /\ outbox.posts <= Dispatches)

\* the sixth request of the thread failed at its COMMIT, five messages are
\* stored, and nothing was scheduled or posted
RolledBackWitness ==
    /\ last.op = "recordMessage"
    /\ last.status = 500
    /\ last.note = "counted"
    /\ now > MaxTxn
    /\ Len(messages) = MinOutgoing + MinIncoming - 1
    /\ Dispatches = 0
    /\ tasks = <<>>
    /\ outbox.posts = 0

----------------------------------------------------------------------------
\* C27: the payload of an automatic dispatch is a consistent snapshot of its
\* thread: its last_message is the date of the newest message it lists, and
\* its responded is the value that message implies.
AutoPayloadConsistent ==
    outbox.kind = "auto" =>
        \A i \in DOMAIN outbox.payload :
            LET p == outbox.payload[i]
            IN /\ p.messages # <<>>
               /\ p.last_message = Val(p.messages[Len(p.messages)].date)
               /\ \A j \in DOMAIN p.messages : p.messages[j].date <= The(p.last_message)
               /\ p.responded =
                     Val(IF p.messages[Len(p.messages)].type = "incoming"
                         THEN "Yes" ELSE "No")

----------------------------------------------------------------------------
\* C28: the responded value that GET /api/threads derives at read time from
\* the latest message equals the value stored on the thread row, so an
\* unfiltered listing shows as many "Yes" as GET /api/stats counts.
ListedRespondedIsStored ==
    last.op = "listThreads" =>
        /\ \A i \in DOMAIN last.rows :
              threads[last.rows[i].thread_id].responded = Val(last.rows[i].responded)
        /\ last.filter = NoFilter =>
              Cardinality({i \in DOMAIN last.rows : last.rows[i].responded = "Yes"})
                  = respondedCount(threads)

\* an unfiltered listing of two threads, one answered by the customer and
\* one waiting, after a score update
ListedRespondedWitness ==
    /\ last.op = "listThreads"
    /\ last.filter = NoFilter
    /\ Len(last.rows) = 2
    /\ respondedCount(threads) = 1
    /\ threads["t1"].affection_score # NULL

----------------------------------------------------------------------------
\* C29: the operator and model of a thread row are those of the first
\* POST /api/threads for its thread_id: a later request on the thread stores
\* its message with the operator and model it carries and leaves those of
\* the thread row as they are.
OwnerFixedByFirstMessage ==
    [][\A in \in OwnerInputs :
          RecordMessage(in) =>
              /\ messages' = Append(messages, messages'[Len(messages')])
              /\ messages'[Len(messages')].operator = in.operator
              /\ messages'[Len(messages')].model = in.model
              /\ IF in.thread_id \in DOMAIN threads
                 THEN /\ threads'[in.thread_id].operator = threads[in.thread_id].operator
                      /\ threads'[in.thread_id].model = threads[in.thread_id].model
                 ELSE /\ threads'[in.thread_id].operator = in.operator
                      /\ threads'[in.thread_id].model = in.model]_vars

\* the thread row still names the operator and model of the first message
\* after a message of another operator and another model was stored
OwnerWitness ==
    /\ Len(messages) = 2
    /\ messages[2].operator # messages[1].operator
    /\ messages[2].model # messages[1].model
    /\ threads["t1"].operator = messages[1].operator
    /\ threads["t1"].model = messages[1].model
    /\ last.op = "recordMessage"
    /\ last.status = 201

----------------------------------------------------------------------------
\* C30: PUT /api/threads/:id cannot clear a score: a field given as null is
\* left as stored, like a field that is not given; a stored score becomes
\* null only in a step that records a message on its thread.
ScoreClearedOnlyByMessage ==
    [][/\ \A t \in DOMAIN threads, f \in ScoreFields :
             (threads[t][f] # NULL /\ threads'[t][f] = NULL) =>
                 /\ last'.op = "recordMessage"
                 /\ last'.thread_id = t
                 /\ Len(messages') = Len(messages) + 1
                 /\ messages'[Len(messages')].thread_id = t
       /\ (messages' = messages /\ last'.op = "applyScores"
             /\ last'.thread_id \in DOMAIN threads) =>
             \A f \in ScoreFields :
                 last'.body[f] \in {JNull, JUndef} =>
                     threads'[last'.thread_id][f] = threads[last'.thread_id][f]]_vars

\* a score update that gave null for a stored score was answered 200 and
\* the score is still stored
NullKeptWitness ==
    /\ last.op = "applyScores"
    /\ last.status = 200
    /\ \E f \in ScoreFields :
          /\ last.body[f] = JNull
          /\ threads[last.thread_id][f] = Val(85)

====
